---- MODULE Spec2Model ----
(***************************************************************************)
(* A model of delete.py, the Telegram deletion tool: one run of main(),    *)
(* from the creation of the session client to the release of the session.  *)
(* Text (type labels, terminal input) is modelled as sequences of          *)
(* one-character strings, so that lower(), strip(), split(), int() and the *)
(* substring tests of the code are computed as Python computes them.       *)
(***************************************************************************)
EXTENDS Integers, Sequences, FiniteSets, TLC

\* The largest number of conversation records the remote listing yields in
\* a whole run of main.
MaxDialogs == 2

\* The largest number of items the interactive engine is started on, when it
\* is explored on its own.
MaxItems == 2

\* The longest file handed to imghdr.what, in bytes: longer than one read.
MaxFile == 34

----------------------------------------------------------------------------
(* Text *)

UPPERCASE == <<"A","B","C","D","E","F","G","H","I","J","K","L","M",
               "N","O","P","Q","R","S","T","U","V","W","X","Y","Z">>
LOWERCASE == <<"a","b","c","d","e","f","g","h","i","j","k","l","m",
               "n","o","p","q","r","s","t","u","v","w","x","y","z">>
DIGITS == <<"0","1","2","3","4","5","6","7","8","9">>
\* A character that str.isdigit() accepts and int() rejects: SUPERSCRIPT TWO
\* (U+00B2), written here as one element of a text.
SUPERSCRIPT_TWO == "^2"
WHITESPACE == {" ", "\t", "\n", "\r"}

\* str.lower() on one character.
LowerChar(c) ==
    IF \E k \in 1..26 : UPPERCASE[k] = c
    THEN LOWERCASE[CHOOSE k \in 1..26 : UPPERCASE[k] = c]
    ELSE c

\* str.lower()
Lower(s) == [k \in 1..Len(s) |-> LowerChar(s[k])]

\* str.strip(): leading and trailing whitespace removed.
RECURSIVE LStrip(_)
LStrip(s) == IF s # <<>> /\ Head(s) \in WHITESPACE THEN LStrip(Tail(s)) ELSE s
RECURSIVE RStrip(_)
RStrip(s) ==
    IF s # <<>> /\ s[Len(s)] \in WHITESPACE
    THEN RStrip(SubSeq(s, 1, Len(s) - 1))
    ELSE s
Strip(s) == RStrip(LStrip(s))

\* `sub in s` for strings: a case-sensitive substring test.
Contains(sub, s) ==
    \E k \in 0..(Len(s) - Len(sub)) : SubSeq(s, k + 1, k + Len(sub)) = sub

\* str.split(sep) for a one-character separator: the list of the parts.
RECURSIVE Split(_, _)
Split(s, sep) ==
    IF \E k \in 1..Len(s) : s[k] = sep
    THEN LET k == CHOOSE j \in 1..Len(s) : s[j] = sep /\ \A m \in 1..(j - 1) : s[m] # sep
         IN  <<SubSeq(s, 1, k - 1)>> \o Split(SubSeq(s, k + 1, Len(s)), sep)
    ELSE <<s>>

\* Non-empty and every character one of 0..9.
IsDecimal(s) == s # <<>> /\ \A k \in 1..Len(s) : \E d \in 1..10 : DIGITS[d] = s[k]

\* str.isdigit(): non-empty and every character a digit, which includes
\* digits that are not decimal such as the superscripts.
IsDigit(s) ==
    /\ s # <<>>
    /\ \A k \in 1..Len(s) : s[k] = SUPERSCRIPT_TWO \/ \E d \in 1..10 : DIGITS[d] = s[k]

DigitValue(c) == (CHOOSE d \in 1..10 : DIGITS[d] = c) - 1

RECURSIVE DecimalValue(_)
DecimalValue(s) ==
    IF s = <<>> THEN 0
    ELSE 10 * DecimalValue(SubSeq(s, 1, Len(s) - 1)) + DigitValue(s[Len(s)])

\* int(s): surrounding whitespace and one leading "+" are accepted; anything
\* else that is not a run of digits raises ValueError.  (A leading "-" never
\* reaches int() here: the text was split on "-".)
IntBody(s) == IF Strip(s) # <<>> /\ Head(Strip(s)) = "+" THEN Tail(Strip(s)) ELSE Strip(s)
IntRaises(s) == ~IsDecimal(IntBody(s))
Int_(s) == DecimalValue(IntBody(s))

----------------------------------------------------------------------------
(* The type labels given to TelegramItem.type *)

PRIVATE_CHAT      == "Private Chat"
BROADCAST_CHANNEL == "Broadcast Channel"
SUPERGROUP        == "Supergroup"
CHANNEL           == "Channel"
SMALL_GROUP       == "Small Group"
OTHER_TYPE        == "Other"

\* The characters of a type label.
Chars(label) ==
    CASE label = "Private Chat" -> <<"P","r","i","v","a","t","e"," ","C","h","a","t">>
      [] label = "Broadcast Channel" ->
            <<"B","r","o","a","d","c","a","s","t"," ","C","h","a","n","n","e","l">>
      [] label = "Supergroup" -> <<"S","u","p","e","r","g","r","o","u","p">>
      [] label = "Channel" -> <<"C","h","a","n","n","e","l">>
      [] label = "Small Group" -> <<"S","m","a","l","l"," ","G","r","o","u","p">>
      [] label = "Other" -> <<"O","t","h","e","r">>

\* The substrings delete_item and interactive_selection look for.
GROUP_WORD   == <<"G","r","o","u","p">>
CHANNEL_WORD == <<"C","h","a","n","n","e","l">>

----------------------------------------------------------------------------
(* Remote entities: telethon's User, Channel (with its broadcast and       *)
(* megagroup flags), Chat, and any other entity a dialog may carry.        *)

Entities ==
    {[kind |-> "User", broadcast |-> FALSE, megagroup |-> FALSE],
     [kind |-> "Chat", broadcast |-> FALSE, megagroup |-> FALSE],
     [kind |-> "Unknown", broadcast |-> FALSE, megagroup |-> FALSE]}
    \cup {[kind |-> "Channel", broadcast |-> b, megagroup |-> m] : b, m \in BOOLEAN}

\* The sequences of at most n entities.
DialogLists(n) == UNION {[1..k -> Entities] : k \in 0..n}

\* The bucket get_all_items appends an entity's item to.
BucketOf(entity) ==
    IF entity.kind = "User" THEN "private_chats"
    ELSE IF entity.kind = "Channel"
         THEN IF entity.broadcast THEN "channels"
              ELSE IF entity.megagroup THEN "groups"
              ELSE "channels"
    ELSE IF entity.kind = "Chat" THEN "groups"
    ELSE "other"

\* The type label get_all_items gives an entity's item.
TypeOf_MegagroupFirst(entity) ==
    IF entity.kind = "User" THEN PRIVATE_CHAT
    ELSE IF entity.kind = "Channel"
         THEN IF entity.megagroup THEN SUPERGROUP
              ELSE IF entity.broadcast THEN BROADCAST_CHANNEL
              ELSE CHANNEL
    ELSE IF entity.kind = "Chat" THEN SMALL_GROUP
    ELSE OTHER_TYPE

TypeOf(entity) ==
    IF entity.kind = "User" THEN PRIVATE_CHAT
    ELSE IF entity.kind = "Channel"
         THEN IF entity.broadcast THEN BROADCAST_CHANNEL
              ELSE IF entity.megagroup THEN SUPERGROUP
              ELSE CHANNEL
    ELSE IF entity.kind = "Chat" THEN SMALL_GROUP
    ELSE OTHER_TYPE

\* TelegramItem(id, name, type, entity): selected starts False.  The id is
\* the record's place in the remote listing; the display name decides
\* nothing and is left out.
TelegramItem(id, type, entity) ==
    [id |-> id, type |-> type, entity |-> entity, selected |-> FALSE]

----------------------------------------------------------------------------
(* Terminal input *)

\* No text yet: the value of a text variable before its prompt was answered.
NONE == <<"None">>

YES == <<"y","e","s">>

\* Answers typed at the final prompt.
ConfirmInputs ==
    {YES, <<"Y","E","S">>, <<" ","y","e","s">>, <<"y">>, <<>>, <<"n","o">>}

\* Answers typed at the numeric menu.
MenuInputs ==
    {<<"1">>, <<"2">>, <<"3">>, <<"4">>, <<"5">>, <<"6">>, <<"7">>, <<>>,
     <<" ","2"," ">>, <<"x">>}

\* The decimal text of a number below 10.
NumStr(n) == <<DIGITS[n + 1]>>

DONE     == <<"d","o","n","e">>
QUIT     == <<"q","u","i","t">>
ALL      == <<"a","l","l">>
NONE_CMD == <<"n","o","n","e">>
CHATS    == <<"c","h","a","t","s">>
GROUPS   == <<"g","r","o","u","p","s">>
CHANNELS == <<"c","h","a","n","n","e","l","s">>

\* Lines typed at the interactive engine's prompt, for a list of n items:
\* every command word, numbers from 0 to n + 1, the ranges a-b with
\* 1 <= a <= b <= n, the reversed range n-1, two ranges with an endpoint
\* outside 1..n, malformed ranges and unknown words.
CommandInputs(n) ==
    {DONE, <<" ","D","o","n","e"," ">>, QUIT, ALL, NONE_CMD, CHATS, GROUPS, CHANNELS,
     <<"f","o","o">>, <<>>, <<"-","1">>, <<"1","-","2","-","3">>, <<"a","-","b">>,
     <<SUPERSCRIPT_TWO>>}
    \cup {NumStr(k) : k \in 0..(n + 1)}
    \cup {NumStr(a) \o <<"-">> \o NumStr(b) : a, b \in 1..n}
    \cup {NumStr(0) \o <<"-">> \o NumStr(1), NumStr(1) \o <<"-">> \o NumStr(n + 1)}

\* The lines typed at that prompt in a whole run of main: enough to commit
\* any selection, to quit, and to mistype.
RunCommandInputs(n) ==
    {DONE, <<"Q","U","I","T">>, ALL, <<"f","o","o">>, <<SUPERSCRIPT_TWO>>}
    \cup {NumStr(k) : k \in 1..n}

----------------------------------------------------------------------------
(* imghdr.what: bytes are numbers in 0..255 *)

\* `h is None`: no header was passed.
H_NONE == <<-1>>

\* f.read(32)
READ_SIZE == 32

\* The signatures the checks look for.
JPEG   == <<255, 216>>
PNG    == <<137, 80, 78, 71, 13, 10, 26, 10>>
GIF87A == <<71, 73, 70, 56, 55, 97>>
GIF89A == <<71, 73, 70, 56, 57, 97>>
RIFF   == <<82, 73, 70, 70>>
WEBP   == <<87, 69, 66, 80>>
BM     == <<66, 77>>
ICO    == <<0, 0, 1, 0>>
CUR    == <<0, 0, 2, 0>>
TIFF_II == <<73, 73, 42, 0>>
TIFF_MM == <<77, 77, 0, 42>>

\* bytes.startswith(prefix)
StartsWith(s, prefix) ==
    Len(s) >= Len(prefix) /\ SubSeq(s, 1, Len(prefix)) = prefix

\* s[a:b] for 0 <= a <= b: the bytes at offsets a .. b-1 that exist.
Slice(s, a, b) ==
    SubSeq(s, (IF a < Len(s) THEN a ELSE Len(s)) + 1, IF b < Len(s) THEN b ELSE Len(s))

\* f.read(n): at most n bytes from the start of the file.
Read(f, n) == Slice(f, 0, n)

\* The if/elif chain of what(); "None" when no check matches.
what_RiffOnly(header) ==
    IF StartsWith(header, JPEG) THEN "jpeg"
    ELSE IF StartsWith(header, PNG) THEN "png"
    ELSE IF StartsWith(header, GIF87A) \/ StartsWith(header, GIF89A) THEN "gif"
    ELSE IF StartsWith(header, RIFF) THEN "webp"
    ELSE IF StartsWith(header, BM) THEN "bmp"
    ELSE IF StartsWith(header, ICO) THEN "ico"
    ELSE IF StartsWith(header, CUR) THEN "cur"
    ELSE IF StartsWith(header, TIFF_II) \/ StartsWith(header, TIFF_MM) THEN "tiff"
    ELSE "None"

what(header) ==
    IF StartsWith(header, JPEG) THEN "jpeg"
    ELSE IF StartsWith(header, PNG) THEN "png"
    ELSE IF StartsWith(header, GIF87A) \/ StartsWith(header, GIF89A) THEN "gif"
    ELSE IF StartsWith(header, RIFF) /\ Slice(header, 8, 12) = WEBP THEN "webp"
    ELSE IF StartsWith(header, BM) THEN "bmp"
    ELSE IF StartsWith(header, ICO) THEN "ico"
    ELSE IF StartsWith(header, CUR) THEN "cur"
    ELSE IF StartsWith(header, TIFF_II) \/ StartsWith(header, TIFF_MM) THEN "tiff"
    ELSE "None"

----------------------------------------------------------------------------
(* State *)

VARIABLES
    pc,               \* where main() stands
    args,             \* the parsed command line
    dialogs,          \* what client.iter_dialogs() yields, in listing order
    item,             \* the TelegramItem objects, in creation order
    all_items,        \* get_all_items' dictionary: bucket -> list of items
    choice,           \* the stripped answer to the numeric menu
    cmd,              \* the stripped, lowered command of the interactive engine
    items_to_delete,  \* the list handed to the executor loop
    typed,            \* the answer typed at the final prompt, as typed
    i,                \* the executor loop's counter
    success_count,    \* the executor loop's tally
    remote_ok,        \* number of remote requests that returned without raising
    log,              \* every delete_item call and every sleep, in order
    disconnect_calls, \* number of client.disconnect() calls
    exit_path,        \* how main() left its try block
    file,             \* imghdr.what: the bytes of the file or buffer
    h,                \* imghdr.what: the header argument, then the header read
    what_result       \* imghdr.what: the value returned

vars == <<pc, args, dialogs, item, all_items, choice, cmd, items_to_delete,
          typed, i, success_count, remote_ok, log, disconnect_calls, exit_path,
          file, h, what_result>>

Buckets == {"private_chats", "groups", "channels", "other"}

\* flat_items of interactive_selection, and the --all and menu "1" lists:
\* the buckets in the dictionary's insertion order.
flat_items ==
    all_items.private_chats \o all_items.groups \o all_items.channels \o all_items.other

\* confirm = input(...).lower()
confirm == Lower(typed)

Args == [all : BOOLEAN, chats : BOOLEAN, groups : BOOLEAN, channels : BOOLEAN,
         interactive : BOOLEAN]

\* The command lines of the runs explored: every combination of the category
\* flags without --interactive, and --interactive alone or with one of them.
RunArgs ==
    {a \in Args :
        a.interactive =>
            Cardinality({f \in {"all", "chats", "groups", "channels"} : a[f]}) <= 1}

Init ==
    /\ pc = "start"
    /\ args \in RunArgs
    /\ dialogs \in DialogLists(MaxDialogs)
    /\ item = <<>>
    /\ all_items = [b \in Buckets |-> <<>>]
    /\ choice = NONE
    /\ cmd = NONE
    /\ items_to_delete = <<>>
    /\ typed = NONE
    /\ i = 0
    /\ success_count = 0
    /\ remote_ok = 0
    /\ log = <<>>
    /\ disconnect_calls = 0
    /\ exit_path = ""
    /\ file = <<>>
    /\ h = H_NONE
    /\ what_result = ""

----------------------------------------------------------------------------
(* Leaving the try block *)

\* `return` inside the try block, or an exception one of its except clauses
\* catches: control goes to the finally block.
Return(path) == pc' = "finally" /\ exit_path' = path

\* sys.exit(0) inside interactive_selection: SystemExit is no Exception, so
\* neither except clause catches it, and the finally block still runs.
SysExit_SkipsFinally(path) == pc' = "exit" /\ exit_path' = path

SysExit(path) == pc' = "finally" /\ exit_path' = path

----------------------------------------------------------------------------
(* main: authentication *)

\* client.start, is_user_authorized, get_me
client_start ==
    /\ pc = "start"
    /\ \E r \in {"ok", "PhoneNumberInvalidError", "Exception", "unauthorized"} :
          CASE r = "ok" -> pc' = "listing" /\ exit_path' = exit_path
            [] r = "PhoneNumberInvalidError" -> Return("phone_invalid")
            [] r = "Exception" -> Return("error")
            [] r = "unauthorized" -> Return("unauthorized")
    /\ UNCHANGED <<args, dialogs, item, all_items, choice, cmd, items_to_delete,
                   typed, i, success_count, remote_ok, log, disconnect_calls>>
    /\ UNCHANGED <<file, h, what_result>>

----------------------------------------------------------------------------
(* get_all_items *)

\* What one pass of the loop over iter_dialogs does to the dictionary.
ClassifyInto_OtherDropped(buckets, entity, ref) ==
    IF BucketOf(entity) = "other" THEN buckets
    ELSE [buckets EXCEPT ![BucketOf(entity)] = Append(@, ref)]

ClassifyInto(buckets, entity, ref) ==
    [buckets EXCEPT ![BucketOf(entity)] = Append(@, ref)]

\* One pass of `async for dialog in client.iter_dialogs()`.
get_all_items_next ==
    /\ pc = "listing"
    /\ Len(item) < Len(dialogs)
    /\ LET ref == Len(item) + 1
           entity == dialogs[ref]
       IN  /\ item' = Append(item, TelegramItem(ref, TypeOf(entity), entity))
           /\ all_items' = ClassifyInto(all_items, entity, ref)
    /\ UNCHANGED <<pc, args, dialogs, choice, cmd, items_to_delete, typed, i,
                   success_count, remote_ok, log, disconnect_calls, exit_path>>
    /\ UNCHANGED <<file, h, what_result>>

\* The remote listing fails: the exception leaves get_all_items and is caught
\* by main's `except Exception`.
iter_dialogs_error_Swallowed ==
    /\ pc = "listing"
    /\ pc' = "select"
    /\ exit_path' = "listing_error"
    /\ UNCHANGED <<args, dialogs, item, all_items, choice, cmd, items_to_delete,
                   typed, i, success_count, remote_ok, log, disconnect_calls>>
    /\ UNCHANGED <<file, h, what_result>>

iter_dialogs_error ==
    /\ pc = "listing"
    /\ Return("listing_error")
    /\ UNCHANGED <<args, dialogs, item, all_items, choice, cmd, items_to_delete,
                   typed, i, success_count, remote_ok, log, disconnect_calls>>
    /\ UNCHANGED <<file, h, what_result>>

total_count ==
    Len(all_items.private_chats) + Len(all_items.groups)
        + Len(all_items.channels) + Len(all_items.other)

\* The listing is exhausted: get_all_items returns and main counts the items.
get_all_items_return ==
    /\ pc = "listing"
    /\ Len(item) = Len(dialogs)
    /\ IF total_count = 0
       THEN Return("no_conversations")
       ELSE pc' = "select" /\ exit_path' = exit_path
    /\ UNCHANGED <<args, dialogs, item, all_items, choice, cmd, items_to_delete,
                   typed, i, success_count, remote_ok, log, disconnect_calls>>
    /\ UNCHANGED <<file, h, what_result>>

----------------------------------------------------------------------------
(* main: which items to delete *)

\* The --chats / --groups / --channels branch: the flagged buckets, appended
\* in the order of the three `if`s.
CategorySelection_ChannelsFirst(a, buckets) ==
    (IF a.channels THEN buckets.channels ELSE <<>>)
        \o (IF a.chats THEN buckets.private_chats ELSE <<>>)
        \o (IF a.groups THEN buckets.groups ELSE <<>>)

CategorySelection(a, buckets) ==
    (IF a.chats THEN buckets.private_chats ELSE <<>>)
        \o (IF a.groups THEN buckets.groups ELSE <<>>)
        \o (IF a.channels THEN buckets.channels ELSE <<>>)

\* The branch of main that determines the items to delete: `if
\* args.interactive` is tested first, then `args.all`, then the category
\* flags; with none of them the numeric menu is shown.
SelectionMode_FlagsFirst(a) ==
    IF a.all THEN "all"
    ELSE IF a.chats \/ a.groups \/ a.channels THEN "category"
    ELSE IF a.interactive THEN "interactive"
    ELSE "menu"

SelectionMode(a) ==
    IF a.interactive THEN "interactive"
    ELSE IF a.all THEN "all"
    ELSE IF a.chats \/ a.groups \/ a.channels THEN "category"
    ELSE "menu"

\* The command-line branches of the selection.
select_items ==
    /\ pc = "select"
    /\ LET mode == SelectionMode(args)
       IN  IF mode = "interactive"
           THEN pc' = "interactive" /\ UNCHANGED items_to_delete
           ELSE IF mode = "all"
           THEN pc' = "selected" /\ items_to_delete' = flat_items
           ELSE IF mode = "category"
           THEN pc' = "selected" /\ items_to_delete' = CategorySelection(args, all_items)
           ELSE pc' = "menu" /\ UNCHANGED items_to_delete
    /\ UNCHANGED <<args, dialogs, item, all_items, choice, cmd, typed, i,
                   success_count, remote_ok, log, disconnect_calls, exit_path>>
    /\ UNCHANGED <<file, h, what_result>>

\* The numeric menu, shown when no category flag was given.
menu_choice ==
    /\ pc = "menu"
    /\ \E raw \in MenuInputs :
          /\ choice' = Strip(raw)
          /\ CASE choice' = <<"1">> ->
                    pc' = "selected" /\ items_to_delete' = flat_items
                    /\ UNCHANGED exit_path
               [] choice' = <<"2">> ->
                    pc' = "selected" /\ items_to_delete' = all_items.private_chats
                    /\ UNCHANGED exit_path
               [] choice' = <<"3">> ->
                    pc' = "selected" /\ items_to_delete' = all_items.groups
                    /\ UNCHANGED exit_path
               [] choice' = <<"4">> ->
                    pc' = "selected" /\ items_to_delete' = all_items.channels
                    /\ UNCHANGED exit_path
               [] choice' = <<"5">> ->
                    pc' = "interactive" /\ UNCHANGED <<items_to_delete, exit_path>>
               [] choice' = <<"6">> ->
                    Return("menu_cancel") /\ UNCHANGED items_to_delete
               [] OTHER ->
                    Return("menu_invalid") /\ UNCHANGED items_to_delete
    /\ UNCHANGED <<args, dialogs, item, all_items, cmd, typed, i, success_count,
                   remote_ok, log, disconnect_calls>>
    /\ UNCHANGED <<file, h, what_result>>

----------------------------------------------------------------------------
(* interactive_selection *)

\* [item for item in flat_items if item.selected]
selected_items == SelectSeq(flat_items, LAMBDA r : item[r].selected)

InFlat(flat, r) == \E k \in 1..Len(flat) : flat[k] = r

\* `all`: every item of flat_items selected.  `none`: deselected.
SetAll(items, flat, value) ==
    [r \in DOMAIN items |->
        IF InFlat(flat, r) THEN [items[r] EXCEPT !.selected = value] ELSE items[r]]

\* `chats`: item.type == "Private Chat"
SelectChats(items, flat) ==
    [r \in DOMAIN items |->
        IF InFlat(flat, r) /\ items[r].type = PRIVATE_CHAT
        THEN [items[r] EXCEPT !.selected = TRUE] ELSE items[r]]

\* `groups`: "Group" in item.type
SelectGroups(items, flat) ==
    [r \in DOMAIN items |->
        IF InFlat(flat, r) /\ Contains(GROUP_WORD, Chars(items[r].type))
        THEN [items[r] EXCEPT !.selected = TRUE] ELSE items[r]]

\* `channels`: "Channel" in item.type
SelectChannels(items, flat) ==
    [r \in DOMAIN items |->
        IF InFlat(flat, r) /\ Contains(CHANNEL_WORD, Chars(items[r].type))
        THEN [items[r] EXCEPT !.selected = TRUE] ELSE items[r]]

\* for i in range(start-1, end): flat_items[i].selected = not ...
\* (the 1-based places start..end)
ToggleRange_EndExcluded(items, flat, start, end) ==
    [r \in DOMAIN items |->
        IF \E k \in start..(end - 1) : k \in 1..Len(flat) /\ flat[k] = r
        THEN [items[r] EXCEPT !.selected = ~@] ELSE items[r]]

ToggleRange_EitherOrder(items, flat, start, end) ==
    [r \in DOMAIN items |->
        IF \E k \in 1..Len(flat) :
              /\ flat[k] = r
              /\ (start <= k /\ k <= end) \/ (end <= k /\ k <= start)
        THEN [items[r] EXCEPT !.selected = ~@] ELSE items[r]]

ToggleRange(items, flat, start, end) ==
    [r \in DOMAIN items |->
        IF \E k \in start..end : k \in 1..Len(flat) /\ flat[k] = r
        THEN [items[r] EXCEPT !.selected = ~@] ELSE items[r]]

\* `if 1 <= start <= len(flat_items) and 1 <= end <= len(flat_items)`: the
\* range is taken as valid; the order of its endpoints is not looked at.
RangeAccepted(flat, start, end) ==
    1 <= start /\ start <= Len(flat) /\ 1 <= end /\ end <= Len(flat)

\* The `"-" in cmd` branch: a ValueError (a part that is no integer, or not
\* exactly two parts) and an endpoint outside 1..len(flat_items) change nothing.
RangeCommand(items, flat, c) ==
    LET parts == Split(c, "-")
    IN  IF Len(parts) # 2 \/ \E k \in 1..Len(parts) : IntRaises(parts[k])
        THEN items
        ELSE LET start == Int_(parts[1])
                 end == Int_(parts[2])
             IN  IF RangeAccepted(flat, start, end)
                 THEN ToggleRange(items, flat, start, end)
                 ELSE items

\* The `cmd.isdigit()` branch.
NumberCommand_SelectsItem(items, flat, c) ==
    LET idx == DecimalValue(c)
    IN  IF 1 <= idx /\ idx <= Len(flat)
        THEN [r \in DOMAIN items |->
                 IF flat[idx] = r THEN [items[r] EXCEPT !.selected = TRUE] ELSE items[r]]
        ELSE items

NumberCommand(items, flat, c) ==
    LET idx == DecimalValue(c)
    IN  IF 1 <= idx /\ idx <= Len(flat)
        THEN ToggleRange(items, flat, idx, idx)
        ELSE items

\* `idx = int(cmd)` in the `cmd.isdigit()` branch stands outside any try: its
\* ValueError leaves interactive_selection and is caught by main's
\* `except Exception`.
CommandRaises(c) ==
    /\ c \notin {ALL, NONE_CMD, CHATS, GROUPS, CHANNELS}
    /\ ~Contains(<<"-">>, c)
    /\ IsDigit(c)
    /\ IntRaises(c)

\* The if/elif chain below `done` and `quit`: the items after command c.
ApplyCommand(items, flat, c) ==
    IF c = ALL THEN SetAll(items, flat, TRUE)
    ELSE IF c = NONE_CMD THEN SetAll(items, flat, FALSE)
    ELSE IF c = CHATS THEN SelectChats(items, flat)
    ELSE IF c = GROUPS THEN SelectGroups(items, flat)
    ELSE IF c = CHANNELS THEN SelectChannels(items, flat)
    ELSE IF Contains(<<"-">>, c) THEN RangeCommand(items, flat, c)
    ELSE IF IsDigit(c) THEN NumberCommand(items, flat, c)
    ELSE items

\* `quit`: the program exits at once.
QuitCommand_ReturnsSelection ==
    /\ pc' = "selected"
    /\ items_to_delete' = selected_items
    /\ UNCHANGED <<item, exit_path>>

QuitCommand == SysExit("quit") /\ UNCHANGED <<item, items_to_delete>>

\* `done`: `if not selected_items: ... continue`, else the list is returned.
DoneReturns_AnySelection(selection) == TRUE

DoneReturns(selection) == selection # <<>>

\* One pass of the `while True` loop: a line is read, stripped and lowered.
InteractiveCommand(inputs) ==
    /\ pc = "interactive"
    /\ \E raw \in inputs :
          /\ cmd' = Lower(Strip(raw))
          /\ IF cmd' = DONE
             THEN IF DoneReturns(selected_items)
                  THEN /\ pc' = "selected"
                       /\ items_to_delete' = selected_items
                       /\ UNCHANGED <<item, exit_path>>
                  ELSE UNCHANGED <<pc, item, items_to_delete, exit_path>>
             ELSE IF cmd' = QUIT
             THEN QuitCommand
             ELSE IF CommandRaises(cmd')
             THEN Return("error") /\ UNCHANGED <<item, items_to_delete>>
             ELSE /\ item' = ApplyCommand(item, flat_items, cmd')
                  /\ UNCHANGED <<pc, items_to_delete, exit_path>>
    /\ UNCHANGED <<args, dialogs, all_items, choice, typed, i, success_count,
                   remote_ok, log, disconnect_calls>>
    /\ UNCHANGED <<file, h, what_result>>

\* The engine as main runs it.
interactive_selection == InteractiveCommand(RunCommandInputs(Len(flat_items)))

----------------------------------------------------------------------------
(* main: confirmation *)

\* `if not items_to_delete: return`, then the summary by type.
check_selection ==
    /\ pc = "selected"
    /\ IF items_to_delete = <<>>
       THEN Return("empty_selection")
       ELSE pc' = "confirm" /\ UNCHANGED exit_path
    /\ UNCHANGED <<args, dialogs, item, all_items, choice, cmd, items_to_delete,
                   typed, i, success_count, remote_ok, log, disconnect_calls>>
    /\ UNCHANGED <<file, h, what_result>>

\* The test of the lowered answer: `confirm != "yes"` cancels.
ConfirmAccepts_AlsoY(c) == c \in {YES, <<"y">>}

ConfirmAccepts(c) == c = YES

\* The final prompt.
confirm_prompt ==
    /\ pc = "confirm"
    /\ \E raw \in ConfirmInputs :
          /\ typed' = raw
          /\ IF ConfirmAccepts(Lower(raw))
             THEN pc' = "loop" /\ UNCHANGED exit_path
             ELSE Return("declined")
    /\ UNCHANGED <<args, dialogs, item, all_items, choice, cmd, items_to_delete,
                   i, success_count, remote_ok, log, disconnect_calls>>
    /\ UNCHANGED <<file, h, what_result>>

----------------------------------------------------------------------------
(* The executor: delete_item and the loop of main *)

\* The request leave_group_or_channel sends.
leave_group_or_channel(it) ==
    IF it.entity.kind = "Channel"
    THEN "LeaveChannelRequest"
    ELSE "DeleteChatUserRequest"

\* The request delete_item sends for an item, "none" when it sends none
\* (the "Unknown item type" branch).
delete_item_LeaveAnythingElse(it) ==
    IF it.type = PRIVATE_CHAT THEN "DeleteHistoryRequest"
    ELSE leave_group_or_channel(it)

delete_item(it) ==
    IF it.type = PRIVATE_CHAT THEN "DeleteHistoryRequest"
    ELSE IF Contains(GROUP_WORD, Chars(it.type)) \/ Contains(CHANNEL_WORD, Chars(it.type))
    THEN leave_group_or_channel(it)
    ELSE "none"

\* How a remote request may end.
RemoteOutcomes == {"ok", "FloodWaitError", "Exception"}

\* The except clauses of delete_private_chat and leave_group_or_channel:
\* FloodWaitError and any other Exception are logged and become False.
Caught_FloodWaitOnly(outcome) == outcome = "FloodWaitError"

Caught(outcome) == outcome \in {"FloodWaitError", "Exception"}

SLEEP == [op |-> "sleep", item |-> 0]

\* `if success: success_count += 1`
Tally_CountsEveryItem(count, success) == count + 1

Tally(count, success) == IF success THEN count + 1 ELSE count

\* `if i < len(items_to_delete)`: a delay follows every item but the last.
DelayNeeded_AfterEveryItem(n, total) == n <= total

DelayNeeded(n, total) == n < total

\* The for loop after n items: the next item, or past the loop the summary
\* and the end of the try block.
LoopNext(n) ==
    IF n < Len(items_to_delete)
    THEN pc' = "loop" /\ UNCHANGED exit_path
    ELSE Return("completed")

\* One pass of `for i, item in enumerate(items_to_delete, 1)` up to the
\* delay: delete_item is called and the tally updated.
process_item ==
    /\ pc = "loop"
    /\ i < Len(items_to_delete)
    /\ LET ref == items_to_delete[i + 1]
           request == delete_item(item[ref])
       IN  /\ i' = i + 1
           /\ log' = Append(log, [op |-> request, item |-> ref])
           /\ \E outcome \in (IF request = "none" THEN {"none"} ELSE RemoteOutcomes) :
                 IF outcome \in {"ok", "none"} \/ Caught(outcome)
                 THEN /\ success_count' = Tally(success_count, outcome = "ok")
                      /\ remote_ok' = IF outcome = "ok" THEN remote_ok + 1 ELSE remote_ok
                      /\ IF DelayNeeded(i', Len(items_to_delete))
                         THEN pc' = "sleep" /\ UNCHANGED exit_path
                         ELSE LoopNext(i')
                 ELSE /\ UNCHANGED <<success_count, remote_ok>>
                      /\ Return("error")
    /\ UNCHANGED <<args, dialogs, item, all_items, choice, cmd, items_to_delete,
                   typed, disconnect_calls>>
    /\ UNCHANGED <<file, h, what_result>>

\* `await asyncio.sleep(args.delay)`, then the next pass of the loop.
sleep ==
    /\ pc = "sleep"
    /\ log' = Append(log, SLEEP)
    /\ LoopNext(i)
    /\ UNCHANGED <<args, dialogs, item, all_items, choice, cmd, items_to_delete,
                   typed, i, success_count, remote_ok, disconnect_calls>>
    /\ UNCHANGED <<file, h, what_result>>

----------------------------------------------------------------------------
(* main: an unexpected exception *)

\* input() raises at one of the prompts (EOFError when the terminal is
\* closed, KeyboardInterrupt): whether `except Exception` catches it or not,
\* the finally block runs next.
prompt_interrupted ==
    /\ pc \in {"menu", "interactive", "confirm"}
    /\ Return("error")
    /\ UNCHANGED <<args, dialogs, item, all_items, choice, cmd, items_to_delete,
                   typed, i, success_count, remote_ok, log, disconnect_calls>>
    /\ UNCHANGED <<file, h, what_result>>

----------------------------------------------------------------------------
(* main: the finally block *)

disconnect ==
    /\ pc = "finally"
    /\ disconnect_calls' = disconnect_calls + 1
    /\ pc' = "exit"
    /\ UNCHANGED <<args, dialogs, item, all_items, choice, cmd, items_to_delete,
                   typed, i, success_count, remote_ok, log, exit_path>>
    /\ UNCHANGED <<file, h, what_result>>

----------------------------------------------------------------------------

Next ==
    \/ client_start
    \/ get_all_items_next
    \/ iter_dialogs_error
    \/ get_all_items_return
    \/ select_items
    \/ menu_choice
    \/ interactive_selection
    \/ check_selection
    \/ confirm_prompt
    \/ process_item
    \/ sleep
    \/ prompt_interrupted
    \/ disconnect

Spec == Init /\ [][Next]_vars

----------------------------------------------------------------------------
(* interactive_selection on its own: started on the inventory of any       *)
(* non-empty listing, and fed every kind of line.                          *)

\* The dictionary get_all_items returns for a listing, after k records.
RECURSIVE BuiltBuckets(_, _)
BuiltBuckets(ds, k) ==
    IF k = 0 THEN [b \in Buckets |-> <<>>]
    ELSE ClassifyInto(BuiltBuckets(ds, k - 1), ds[k], k)

\* The items get_all_items creates for a listing.
BuiltItems(ds) == [k \in 1..Len(ds) |-> TelegramItem(k, TypeOf(ds[k]), ds[k])]

InitInteractive ==
    /\ pc = "interactive"
    /\ args = [all |-> FALSE, chats |-> FALSE, groups |-> FALSE, channels |-> FALSE,
               interactive |-> TRUE]
    /\ dialogs \in DialogLists(MaxItems) \ {<<>>}
    /\ item = BuiltItems(dialogs)
    /\ all_items = BuiltBuckets(dialogs, Len(dialogs))
    /\ choice = NONE
    /\ cmd = NONE
    /\ items_to_delete = <<>>
    /\ typed = NONE
    /\ i = 0
    /\ success_count = 0
    /\ remote_ok = 0
    /\ log = <<>>
    /\ disconnect_calls = 0
    /\ exit_path = ""
    /\ file = <<>>
    /\ h = H_NONE
    /\ what_result = ""

interactive_engine == InteractiveCommand(CommandInputs(Len(flat_items)))

NextInteractive == interactive_engine

SpecInteractive == InitInteractive /\ [][NextInteractive]_vars

----------------------------------------------------------------------------
(* imghdr.what on its own *)

\* The files sniffed: every length up to MaxFile of a four-byte start, the
\* four bytes after it, the four bytes at offsets 8..11 and padding.
SniffStarts ==
    {RIFF, <<82, 73, 70, 88>>, JPEG \o <<255, 224>>, SubSeq(PNG, 1, 4),
     SubSeq(GIF89A, 1, 4), BM \o <<0, 0>>, ICO, CUR, TIFF_II, TIFF_MM, <<0, 0, 0, 0>>}

SniffSizes == {<<36, 0, 0, 0>>, SubSeq(PNG, 5, 8), <<57, 97, 1, 0>>, WEBP}

SniffMarkers == {WEBP, <<87, 65, 86, 69>>, <<87, 69, 66, 112>>, <<0, 87, 69, 66>>}

SniffFiles ==
    {SubSeq(start \o size \o marker \o [k \in 1..(MaxFile - 12) |-> pad], 1, len) :
        start \in SniffStarts, size \in SniffSizes, marker \in SniffMarkers,
        pad \in {0, 80}, len \in 0..MaxFile}

\* what(file) and what(file, h): the header is passed or read from the file.
InitSniff ==
    /\ pc = "what"
    /\ file \in SniffFiles
    /\ h \in {H_NONE, file}
    /\ what_result = ""
    /\ args = [all |-> FALSE, chats |-> FALSE, groups |-> FALSE, channels |-> FALSE,
               interactive |-> FALSE]
    /\ dialogs = <<>>
    /\ item = <<>>
    /\ all_items = [b \in Buckets |-> <<>>]
    /\ choice = NONE
    /\ cmd = NONE
    /\ items_to_delete = <<>>
    /\ typed = NONE
    /\ i = 0
    /\ success_count = 0
    /\ remote_ok = 0
    /\ log = <<>>
    /\ disconnect_calls = 0
    /\ exit_path = ""

\* One call of what(): the header is read when none was passed, then the
\* checks are made in order.
what_call ==
    /\ pc = "what"
    /\ h' = IF h = H_NONE THEN Read(file, READ_SIZE) ELSE h
    /\ what_result' = what(h')
    /\ pc' = "what_done"
    /\ UNCHANGED <<args, dialogs, item, all_items, choice, cmd, items_to_delete,
                   typed, i, success_count, remote_ok, log, disconnect_calls,
                   exit_path, file>>

NextSniff == what_call

SpecSniff == InitSniff /\ [][NextSniff]_vars

----------------------------------------------------------------------------
(* Properties *)

REQUESTS == {"DeleteHistoryRequest", "LeaveChannelRequest", "DeleteChatUserRequest"}
LEAVES   == {"LeaveChannelRequest", "DeleteChatUserRequest"}

\* The delete_item calls made so far, and the items they were made for.
Calls == SelectSeq(log, LAMBDA e : e.op # "sleep")
Attempted == [k \in 1..Len(Calls) |-> Calls[k].item]

\* The remote requests sent so far.
Remote == SelectSeq(log, LAMBDA e : e.op \in REQUESTS)

Range(seq) == {seq[k] : k \in 1..Len(seq)}

\* get_all_items has returned.
Built ==
    \/ pc \in {"select", "menu", "interactive", "selected", "confirm", "loop", "sleep"}
    \/ exit_path \in {"no_conversations", "quit", "menu_cancel", "menu_invalid",
                      "empty_selection", "declined", "completed"}

\* C1, as stated: an answer at the final prompt other than exactly "yes"
\* leads to no delete_item call at all.
C1_OnlyExactYesProceeds ==
    (typed # NONE /\ typed # YES) => log = <<>>

\* C1, amended: an answer at the final prompt whose lowercase form is not
\* "yes" leads to no delete_item call at all (the test is case-insensitive,
\* and nothing is stripped).
C1_ConfirmationGate ==
    (typed # NONE /\ Lower(typed) # YES) => log = <<>>

C1_Witness ==
    /\ pc = "exit"
    /\ typed = <<" ","y","e","s">>
    /\ exit_path = "declined"
    /\ log = <<>>

\* C2: every item the executor has processed whose category is Small Group,
\* Supergroup, Broadcast Channel or Channel got exactly one leave request,
\* LeaveChannelRequest when its entity is a Channel and DeleteChatUserRequest
\* when it is a Chat.
C2_LeaveMatchesEntityKind ==
    \A k \in 1..i :
        LET r == items_to_delete[k]
            leaves == SelectSeq(log, LAMBDA e : e.item = r /\ e.op \in LEAVES)
        IN  item[r].type \in {SMALL_GROUP, SUPERGROUP, BROADCAST_CHANNEL, CHANNEL} =>
                /\ Len(leaves) = 1
                /\ leaves[1].op = IF item[r].entity.kind = "Channel"
                                  THEN "LeaveChannelRequest"
                                  ELSE "DeleteChatUserRequest"

\* C3: the items attempted so far are the first i items of the selection, in
\* its order and once each; once the loop has started the run ends only by
\* completing, with every item attempted, whatever the remote calls returned.
C3_EveryItemAttemptedOnce ==
    /\ Attempted = SubSeq(items_to_delete, 1, i)
    /\ i > 0 => exit_path \in {"", "completed"}
    /\ exit_path = "completed" => i = Len(items_to_delete)
    /\ (pc \in {"finally", "exit"} /\ i > 0) => Attempted = items_to_delete

C3_Witness ==
    /\ pc = "exit"
    /\ exit_path = "completed"
    /\ Len(items_to_delete) >= 2
    /\ Len(Remote) = Len(items_to_delete)
    /\ remote_ok = 0

\* C4: a run that has ended has released the session (disconnect was called,
\* once), and a run that has not ended can take a step.
C4_SessionReleased ==
    /\ pc = "exit" => disconnect_calls = 1
    /\ pc # "exit" => ENABLED Next

C4_Witness ==
    /\ pc = "exit"
    /\ exit_path = "quit"
    /\ disconnect_calls = 1

\* The user has cancelled: `quit` in the engine, menu choice 6 or an invalid
\* menu choice, or a declined final confirmation.
UserCancelled ==
    \/ cmd = QUIT
    \/ choice # NONE /\ choice \notin {<<"1">>, <<"2">>, <<"3">>, <<"4">>, <<"5">>}
    \/ typed # NONE /\ confirm # YES

\* C5: in a run the user has cancelled, no remote request was sent.
C5_CancellationSendsNothing ==
    UserCancelled => Remote = <<>>

C5_Witness ==
    /\ pc = "exit"
    /\ cmd = QUIT
    /\ selected_items # <<>>
    /\ Remote = <<>>

\* C6: a run with --all (and without --interactive) that listed a non-empty
\* inventory ends with every item of it processed, whatever was answered at
\* a prompt.
C6_AllWithoutConfirmation ==
    (args.all /\ ~args.interactive /\ pc = "exit" /\ Built
        /\ exit_path # "no_conversations")
        => Attempted = flat_items

\* C7: `chats` selects every item of the private chats bucket, `groups` every
\* item of the groups bucket, `channels` every item of the channels bucket,
\* and the flag of every other item stays as it was.
C7_CategoryCommands ==
    [][(pc = "interactive" /\ cmd' \in {CHATS, GROUPS, CHANNELS}) =>
          LET named == IF cmd' = CHATS THEN Range(all_items.private_chats)
                       ELSE IF cmd' = GROUPS THEN Range(all_items.groups)
                       ELSE Range(all_items.channels)
          IN  \A r \in DOMAIN item :
                 /\ r \in named => item'[r].selected
                 /\ r \notin named => item'[r].selected = item[r].selected]_vars

\* The run selects by category flags.
CategoryRun ==
    ~args.interactive /\ ~args.all /\ (args.chats \/ args.groups \/ args.channels)

RECURSIVE Concat(_)
Concat(seqs) == IF seqs = <<>> THEN <<>> ELSE Head(seqs) \o Concat(Tail(seqs))

FlaggedBuckets ==
    SelectSeq(<<"private_chats", "groups", "channels">>,
              LAMBDA b : \/ b = "private_chats" /\ args.chats
                         \/ b = "groups" /\ args.groups
                         \/ b = "channels" /\ args.channels)

\* C8: in a run that selects by category flags, the list handed on is the
\* flagged buckets one after another in the order private chats, groups,
\* channels; only their items get remote requests; and a completed --chats
\* run has sent one history-erase per private chat and no leave.
C8_CategoryFlags ==
    CategoryRun =>
        /\ (Built /\ pc # "select" /\ exit_path # "no_conversations") =>
               items_to_delete = Concat([k \in 1..Len(FlaggedBuckets) |->
                                            all_items[FlaggedBuckets[k]]])
        /\ \A k \in 1..Len(Remote) :
               \E b \in Range(FlaggedBuckets) : Remote[k].item \in Range(all_items[b])
        /\ (args.chats /\ ~args.groups /\ ~args.channels /\ exit_path = "completed") =>
               /\ Len(SelectSeq(log, LAMBDA e : e.op = "DeleteHistoryRequest"))
                      = Len(all_items.private_chats)
               /\ SelectSeq(log, LAMBDA e : e.op \in LEAVES) = <<>>

C8_Witness ==
    /\ pc = "exit"
    /\ exit_path = "completed"
    /\ args.chats /\ ~args.groups /\ ~args.channels /\ ~args.all /\ ~args.interactive
    /\ all_items.private_chats # <<>>
    /\ all_items.groups # <<>>
    /\ Len(Remote) = Len(all_items.private_chats)

\* C9: every item carries the one category the ordered rule gives its
\* entity: a person is a Private Chat, a broadcast channel-kind entity a
\* Broadcast Channel, a megagroup channel-kind entity that is not broadcast a
\* Supergroup, any other channel-kind entity a Channel, a basic group a Small
\* Group, anything else Other.
C9_Classifier ==
    \A r \in DOMAIN item :
        LET e == item[r].entity
        IN  /\ e = dialogs[r]
            /\ item[r].type =
                  CASE e.kind = "User" -> PRIVATE_CHAT
                    [] e.kind = "Channel" /\ e.broadcast -> BROADCAST_CHANNEL
                    [] e.kind = "Channel" /\ ~e.broadcast /\ e.megagroup -> SUPERGROUP
                    [] e.kind = "Channel" /\ ~e.broadcast /\ ~e.megagroup -> CHANNEL
                    [] e.kind = "Chat" -> SMALL_GROUP
                    [] OTHER -> OTHER_TYPE

C9_Witness ==
    \E r \in DOMAIN item :
        /\ item[r].entity = [kind |-> "Channel", broadcast |-> FALSE, megagroup |-> TRUE]
        /\ item[r].type = SUPERGROUP

\* C10: the buckets hold as many items as records were read, all of them once
\* the listing is exhausted; no record is in two buckets or twice in one; and
\* each bucket is in listing order.
C10_Partition ==
    /\ total_count = Len(item)
    /\ Built => total_count = Len(dialogs)
    /\ \A j, k \in 1..Len(flat_items) : flat_items[j] = flat_items[k] => j = k
    /\ Range(flat_items) = 1..Len(item)
    /\ \A b \in Buckets :
          \A j, k \in 1..Len(all_items[b]) : j < k => all_items[b][j] < all_items[b][k]

C10_Witness ==
    /\ pc = "select"
    /\ \E b \in Buckets : Len(all_items[b]) >= 2

\* C11: `done` with nothing selected returns nothing: the engine stays at
\* its prompt with every flag as it was; the engine returns only on a `done`
\* given with something selected, and what it returns is that selection,
\* never empty.
C11_DoneNeedsSelection ==
    [][pc = "interactive" =>
          /\ (cmd' = DONE /\ selected_items = <<>>) =>
                 /\ pc' = "interactive"
                 /\ item' = item
                 /\ items_to_delete' = items_to_delete
          /\ pc' = "selected" =>
                 /\ cmd' = DONE
                 /\ selected_items # <<>>
                 /\ items_to_delete' = selected_items]_vars

C11_Witness ==
    /\ pc = "interactive"
    /\ cmd = DONE
    /\ selected_items = <<>>
    /\ items_to_delete = <<>>

\* C12: the command n, for a place n of the list, flips the flag of item n
\* and of no other item, and the same command given again brings every flag
\* back to what it was before the first.
C12_ToggleTwiceRestores ==
    [][pc = "interactive" =>
          \A n \in 1..Len(flat_items) :
              cmd' = NumStr(n) =>
                  /\ item'[flat_items[n]].selected = ~item[flat_items[n]].selected
                  /\ \A r \in DOMAIN item : r # flat_items[n] => item'[r] = item[r]
                  /\ ApplyCommand(item', flat_items, cmd') = item]_vars

\* The command 1 has just deselected item 1, which an earlier command had
\* selected.
C12_Witness ==
    /\ pc = "interactive"
    /\ cmd = NumStr(1)
    /\ ~item[flat_items[1]].selected

\* C13: the command a-b with 1 <= a <= b <= N flips the flag of the items at
\* places a..b of the N-item list, whatever the flag was, and leaves every
\* other item as it was.
C13_RangeFlipsExactly ==
    [][pc = "interactive" =>
          \A a, b \in 1..Len(flat_items) :
              (a <= b /\ cmd' = NumStr(a) \o <<"-">> \o NumStr(b)) =>
                  \A k \in 1..Len(flat_items) :
                      LET r == flat_items[k]
                      IN  IF a <= k /\ k <= b
                          THEN item'[r] = [item[r] EXCEPT !.selected = ~item[r].selected]
                          ELSE item'[r] = item[r]]_vars

C13_Witness ==
    /\ pc = "interactive"
    /\ cmd = <<"1", "-", "2">>
    /\ Len(flat_items) >= 2
    /\ item[flat_items[1]].selected
    /\ item[flat_items[2]].selected

\* C14: the log alternates attempt, delay, attempt, ...: a delay is taken
\* only after an attempt that is not the last (whether it succeeded or not)
\* and is followed by the next attempt; a completed run over n items has
\* made n attempts and n - 1 delays, and ends on an attempt.
C14_DelayBetweenItems ==
    /\ \A k \in 1..Len(log) : (log[k].op = "sleep") <=> (k % 2 = 0)
    /\ pc = "sleep" => (i < Len(items_to_delete) /\ Len(log) = 2 * i - 1)
    /\ pc = "loop" => Len(log) = 2 * i
    /\ exit_path = "completed" =>
           /\ Len(log) = 2 * Len(items_to_delete) - 1
           /\ Len(SelectSeq(log, LAMBDA e : e.op = "sleep")) = Len(items_to_delete) - 1

C14_Witness ==
    /\ pc = "exit"
    /\ exit_path = "completed"
    /\ Len(items_to_delete) = 2
    /\ success_count = 0
    /\ Len(log) = 3
    /\ log[1].op \in REQUESTS
    /\ log[2] = SLEEP

\* C15: with --interactive, whatever other flags are passed, the numeric
\* menu is never shown and the items to delete are never taken from the
\* flags: they stay empty until `done` commits the interactive selection, and
\* are then exactly the selected items in display order.
C15_InteractiveWins ==
    args.interactive =>
        /\ pc # "menu"
        /\ choice = NONE
        /\ pc \in {"select", "interactive"} => items_to_delete = <<>>
        /\ items_to_delete # <<>> => (cmd = DONE /\ items_to_delete = selected_items)
        /\ exit_path \in {"declined", "completed"} => items_to_delete # <<>>

C15_Witness ==
    /\ args.interactive
    /\ args.all \/ args.chats \/ args.groups \/ args.channels
    /\ exit_path = "completed"
    /\ Len(flat_items) = 2
    /\ items_to_delete = <<2>>
    /\ CategorySelection(args, all_items) = <<1>>

\* The lines the engine answers with an error message: an integer outside
\* 1..n, a range that is malformed or has an endpoint outside 1..n, and
\* anything that is neither a command word, a range nor an integer.
COMMAND_WORDS == {DONE, QUIT, ALL, NONE_CMD, CHATS, GROUPS, CHANNELS}

InvalidCommand(c, n) ==
    /\ c \notin COMMAND_WORDS
    /\ IF Contains(<<"-">>, c)
       THEN LET parts == Split(c, "-")
            IN  \/ Len(parts) # 2
                \/ \E k \in 1..Len(parts) : ~IsDecimal(Strip(parts[k]))
                \/ \E k \in 1..Len(parts) : DecimalValue(Strip(parts[k])) \notin 1..n
       ELSE IsDecimal(c) => DecimalValue(c) \notin 1..n

\* C16: an invalid line typed at the command prompt (an out-of-range integer,
\* a range with an endpoint outside 1..N, a malformed range, an unknown
\* command) changes no item's selected flag and the loop prompts again.
C16_InvalidInputHarmless ==
    [][(pc = "interactive" /\ InvalidCommand(cmd', Len(flat_items)))
          => (item' = item /\ pc' = "interactive")]_vars

\* C17: when the executor takes an item of type Other, no remote request is
\* sent (the requests sent so far are unchanged), the success count does not
\* grow, and the loop goes on: to the delay before the next item, or to the
\* summary when the item was the last.
C17_OtherItemSkipped ==
    [][(/\ pc = "loop"
        /\ i' = i + 1
        /\ item[items_to_delete[i + 1]].type = OTHER_TYPE)
          => (/\ Remote' = Remote
              /\ Len(Calls') = Len(Calls) + 1
              /\ success_count' = success_count
              /\ remote_ok' = remote_ok
              /\ IF i' < Len(items_to_delete)
                 THEN pc' = "sleep"
                 ELSE exit_path' = "completed")]_vars

C17_Witness ==
    /\ pc = "exit"
    /\ exit_path = "completed"
    /\ Len(items_to_delete) = 2
    /\ \A k \in 1..2 : item[items_to_delete[k]].type = OTHER_TYPE
    /\ Attempted = items_to_delete
    /\ Remote = <<>>
    /\ success_count = 0

\* C18: the tally is exact.  The success count is the number of remote
\* requests that returned without error, throughout the loop it lies between
\* 0 and the number of items attempted so far (itself the number of
\* delete_item calls), and a completed run has attempted as many items as
\* the items-to-delete sequence holds; an item skipped or failed adds 0.
C18_TallyExact ==
    /\ success_count = remote_ok
    /\ 0 <= success_count
    /\ success_count <= i
    /\ success_count <= Len(Remote)
    /\ i = Len(Calls)
    /\ i <= Len(items_to_delete)
    /\ exit_path = "completed" => i = Len(items_to_delete)

C18_Witness ==
    /\ pc = "exit"
    /\ exit_path = "completed"
    /\ Len(items_to_delete) = 2
    /\ Len(Remote) = 1
    /\ success_count = 1
    /\ i = 2

\* C19: a listing that failed, after any number of records, ends the run:
\* no menu choice, command or confirmation was ever read, nothing was
\* selected, no request was sent, and the run ends with the session
\* released; an inventory that is not complete is never put to use.
C19_ListingFailureFatal ==
    (exit_path = "listing_error" \/ Len(item) < Len(dialogs)) =>
        /\ pc \in {"start", "listing", "finally", "exit"}
        /\ exit_path = "listing_error" => pc \in {"finally", "exit"}
        /\ choice = NONE
        /\ cmd = NONE
        /\ typed = NONE
        /\ items_to_delete = <<>>
        /\ log = <<>>
        /\ i = 0
        /\ pc = "exit" => disconnect_calls = 1

C19_Witness ==
    /\ pc = "exit"
    /\ exit_path = "listing_error"
    /\ Len(item) = 1
    /\ Len(dialogs) = 2
    /\ total_count = 1
    /\ disconnect_calls = 1

\* C20: the value returned is one of the known tags or None and is fixed by
\* the header; a header read from a file is at most 32 bytes; and the tag is
\* webp exactly when the header has at least 12 bytes, starts with RIFF and
\* carries WEBP at offsets 8..11, so a RIFF header with anything else there,
\* or shorter than 12 bytes, is never webp.
C20_WebpNeedsMarker ==
    pc = "what_done" =>
        /\ what_result \in {"jpeg", "png", "gif", "webp", "bmp", "ico", "cur", "tiff", "None"}
        /\ what_result = what(h)
        /\ h = file \/ (Len(h) <= READ_SIZE /\ h = SubSeq(file, 1, Len(h)))
        /\ what_result = "webp" <=>
              /\ Len(h) >= 12
              /\ <<h[1], h[2], h[3], h[4]>> = <<82, 73, 70, 70>>
              /\ <<h[9], h[10], h[11], h[12]>> = <<87, 69, 66, 80>>

C20_Witness ==
    /\ pc = "what_done"
    /\ Len(file) = 11
    /\ h = <<82, 73, 70, 70, 36, 0, 0, 0, 87, 69, 66>>
    /\ what_result = "None"

\* C21: the command a-b with both endpoints in 1..N and a > b passes the
\* range test, yet flips nothing: every item's flag, and with it the
\* selection and its count, is after the command what it was before, and
\* the loop prompts again.
C21_ReversedRangeFlipsNothing ==
    [][pc = "interactive" =>
          \A a, b \in 1..Len(flat_items) :
              (a > b /\ cmd' = NumStr(a) \o <<"-">> \o NumStr(b)) =>
                  /\ RangeAccepted(flat_items, a, b)
                  /\ ~IntRaises(NumStr(a)) /\ ~IntRaises(NumStr(b))
                  /\ item' = item
                  /\ selected_items' = selected_items
                  /\ Len(selected_items') = Len(selected_items)
                  /\ pc' = "interactive"]_vars

C21_Witness ==
    /\ pc = "interactive"
    /\ cmd = <<"2", "-", "1">>
    /\ Len(flat_items) = 2
    /\ item[flat_items[1]].selected
    /\ ~item[flat_items[2]].selected

====
